---- MODULE Spec2Model ----
\* Multi-hop dataset translation with per-hop on-disk caching
\* (data_tools/dataset_processers.py, data_tools/dataset_loaders.py).
EXTENDS Integers, Sequences, FiniteSets, TLC

\* ---------------------------------------------------------------- bounds
\* Longest transition_langs list a call is given.
MaxTrans == 2
\* Number of elements of a source dataset.
NumElems == 2
\* Longest token sequence the tokenizer gives for a text.
MaxTokens == 4
\* Largest model.config.max_length.
MaxLength == 6
\* Longest src_langs list a load is asked for.
MaxLineages == 2
\* Largest number of classes of a training set.
MaxClasses == 11
\* Number of fit calls on one classifier.
MaxFits == 2

\* ------------------------------------------------------------ universes
\* Source languages the calls start from.
MainLangs == {"en"}
\* Language codes (a subset of those of the driver script).
Langs == {"en", "fr"}
\* Invocations of get_translated_dataset that may be in progress.
Procs == {1, 2}
\* The invocation of the sequential specification.
SeqProcs == {1}

\* Original ids of the elements of a source dataset, by position.
OrigIds == <<"7", "8", "9", "10">>
\* Labels of the elements of a source dataset, by position.
OrigCategories == <<"CONSPIRACY", "CRITICAL", "CONSPIRACY", "CRITICAL">>

RECURSIVE SeqsUpTo(_, _)
\* All sequences over S of length at most n.
SeqsUpTo(S, n) ==
    IF n = 0 THEN {<<>>}
    ELSE LET shorter == SeqsUpTo(S, n - 1)
         IN shorter \cup {Append(s, x) : s \in {t \in shorter : Len(t) = n - 1}, x \in S}

\* ------------------------------------------------- Python list helpers
\* s[i] with a 0-based index.
At(s, i) == s[i + 1]
\* s[a:b] with 0-based, end-exclusive bounds (0 <= a).
Slice(s, a, b) == SubSeq(s, a + 1, IF b > Len(s) THEN Len(s) ELSE b)

\* ------------------------------------------------------------ data model
\* Strings that are built and parsed (ids) are kept as sequences of pieces,
\* the separator "_" being a piece of its own.
RECURSIVE Join(_, _)
\* sep.join(parts)
Join(parts, sep) ==
    IF Len(parts) = 0 THEN <<>>
    ELSE IF Len(parts) = 1 THEN <<parts[1]>>
    ELSE <<parts[1], sep>> \o Join(Tail(parts), sep)

RECURSIVE FirstField(_, _)
\* s.split(sep)[0]: the pieces before the first separator.
FirstField(s, sep) ==
    IF Len(s) = 0 \/ Head(s) = sep THEN <<>>
    ELSE <<Head(s)>> \o FirstField(Tail(s), sep)

\* An id that grows by the whole chain at every hop (no split of the old id).
LineageIdNoSplit(id, langs) == id \o <<"_">> \o Join(langs, "_")

\* f'{element.id.split("_")[0]}_{"_".join(langs)}'
LineageId(id, langs) == FirstField(id, "_") \o <<"_">> \o Join(langs, "_")

\* The element at position i of the source dataset of language lang.
SourceElement(lang, i) ==
    [id |-> <<OrigIds[i]>>,
     text |-> [lang |-> lang, doc |-> OrigIds[i], via |-> <<>>],
     category |-> OrigCategories[i]]

\* The source (untranslated) dataset of language lang, as kept in memory.
SourceDataset(lang) == [i \in 1..NumElems |-> SourceElement(lang, i)]

\* dataset_to_dict: one JSON object per element, in order.
DatasetToDict(ds) ==
    [i \in 1..Len(ds) |-> <<"id", ds[i].id, "text", ds[i].text, "category", ds[i].category>>]

\* dataset_from_dict: one DatasetElement per JSON object, in order.
DatasetFromDict(dicts) ==
    [i \in 1..Len(dicts) |-> [id |-> dicts[i][2], text |-> dicts[i][4], category |-> dicts[i][6]]]

\* get_transtation_file_name: a collision-free name for (src, dest, mid_langs).
FileName(src, dest, mid) == <<src>> \o mid \o <<dest>>

\* Every name a file of the translated-dataset folder can have.
FileNames == {k \in SeqsUpTo(Langs, MaxTrans + 2) : Len(k) >= 2 /\ k[1] \in MainLangs}

\* TRAIN_DATASET_EN, TRAIN_DATASET_ES: the official dataset files.
TrainDatasetFile(lang) == <<lang>>
TrainLangs == {"en", "es"}

\* A disk maps the names of the files that exist to their state and content.
\* What the disk says of a name that is not on it.
Absent == [st |-> "absent", data |-> <<>>]
\* Opened for writing and not yet closed: truncated or half-written JSON.
Partial == [st |-> "partial", data |-> <<>>]
Complete(dicts) == [st |-> "complete", data |-> dicts]

\* os.path.exists
PathExists(disk, name) == name \in DOMAIN disk

\* The state and content of a file, Absent when the disk has no such file.
FileAt(disk, name) == IF PathExists(disk, name) THEN disk[name] ELSE Absent

\* The disk after the file `name` has been given the state and content `file`.
WithFile(disk, name, file) ==
    [f \in DOMAIN disk \cup {name} |-> IF f = name THEN file ELSE disk[f]]

\* An open in mode 'x': refused when the file exists.
OpenExclusive(disk, name) == ~PathExists(disk, name)

\* open(path, 'w') takes no lock and succeeds whether or not the file exists
\* or another invocation has it open.
CanOpenForWriting(disk, name) == TRUE

\* The translation of one text by the engine of (src, dest): an uninterpreted
\* function of the text and the language pair.
TranslateText(text, src, dest) == [text EXCEPT !.via = Append(@, <<src, dest>>)]

\* ------------------------------------------------------ load_dataset_full
Ok(data) == [err |-> "none", arg |-> <<>>, data |-> data]
Raise(kind, arg) == [err |-> kind, arg |-> arg, data |-> <<>>]

RECURSIVE ResolveFilesCheckingEveryEntry(_, _, _)
\* A loop over src_langs that wants an official language in every entry.
ResolveFilesCheckingEveryEntry(dest_lang, src_langs, acc) ==
    IF Len(src_langs) = 0 THEN Ok(acc)
    ELSE LET src_lang == Head(src_langs) IN
         IF dest_lang \notin TrainLangs
         THEN Raise("ValueError", <<"Unknown language", dest_lang>>)
         ELSE ResolveFilesCheckingEveryEntry(dest_lang, Tail(src_langs),
                  Append(acc, IF Len(src_lang) = 0 THEN TrainDatasetFile(dest_lang)
                              ELSE FileName(At(src_lang, 0), dest_lang,
                                            Slice(src_lang, 1, Len(src_lang)))))

RECURSIVE ResolveFiles(_, _, _)
\* The loop over src_langs: the file of every lineage, in order, or the error
\* of the first empty lineage whose language has no official dataset.
ResolveFiles(dest_lang, src_langs, acc) ==
    IF Len(src_langs) = 0 THEN Ok(acc)
    ELSE LET src_lang == Head(src_langs) IN
         IF Len(src_lang) = 0
         THEN IF dest_lang \in TrainLangs
              THEN ResolveFiles(dest_lang, Tail(src_langs),
                                Append(acc, TrainDatasetFile(dest_lang)))
              ELSE Raise("ValueError", <<"Unknown language", dest_lang>>)
         ELSE ResolveFiles(dest_lang, Tail(src_langs),
                           Append(acc, FileName(At(src_lang, 0), dest_lang,
                                                Slice(src_lang, 1, Len(src_lang)))))

RECURSIVE ReadFiles(_, _, _)
\* The loop over file_name: the contents of the files, concatenated in order.
ReadFiles(disk, names, acc) ==
    IF Len(names) = 0 THEN Ok(acc)
    ELSE LET f == Head(names) IN
         IF ~PathExists(disk, f) THEN Raise("FileNotFoundError", f)
         ELSE IF disk[f].st = "partial" THEN Raise("JSONDecodeError", f)
         ELSE ReadFiles(disk, Tail(names), acc \o disk[f].data)

\* load_dataset_full(dest_lang, src_langs, format) reading the disk `disk`.
\* The docbin branch rebuilds spaCy documents from the same JSON objects.
LoadDatasetFull(dest_lang, src_langs, format, disk) ==
    LET file_name == ResolveFiles(dest_lang, src_langs, <<>>) IN
    IF file_name.err # "none" THEN file_name
    ELSE IF format = "docbin" \/ format = "json" THEN ReadFiles(disk, file_name.data, <<>>)
    ELSE Raise("ValueError", <<"Unknown format", format>>)

\* The official datasets, which no call writes, next to the files of the
\* translated-dataset folder.
TrainFiles ==
    [f \in {TrainDatasetFile(l) : l \in TrainLangs} |->
        Complete(DatasetToDict(SourceDataset(f[1])))]

\* Every file a load can see: the translated-dataset folder `folder` and the
\* official datasets.
Mounted(folder) == folder @@ TrainFiles

\* ------------------------------------------------------ _translate_dataset
\* translation_langs = [src_lang] + transition_langs + [dest_lang]
TranslationLangs(src, dest, trans) == <<src>> \o trans \o <<dest>>

\* The check of get_translated_dataset and _translate_dataset for the
\* one-language request.
IsDegenerate(src, dest, trans) == src = dest /\ Len(trans) = 0

\* A validation that looks at the first hop only.
ValidChainFirstHop(c) == At(c, 0) # At(c, 1)

\* The validation loop: no two consecutive languages are equal.
ValidChain(c) == \A i \in 0..(Len(c) - 2) : At(c, i) # At(c, i + 1)

\* The file the prefix search tests, and loads, for last_transition_index.
CachedPrefixFile(c, last_transition_index) ==
    FileName(At(c, 0), At(c, last_transition_index), Slice(c, 1, last_transition_index))

RECURSIVE SearchCachedPrefix(_, _, _)
\* for last_transition_index in range(last, 0, -1): the first index whose file
\* exists; 0 (the initial new_src_index) when the loop ends without a break.
SearchCachedPrefix(c, disk, last) ==
    IF last < 1 THEN 0
    ELSE IF PathExists(disk, CachedPrefixFile(c, last)) THEN last
    ELSE SearchCachedPrefix(c, disk, last - 1)

RECURSIVE SearchFromStart(_, _, _)
SearchFromStart(c, disk, first) ==
    IF first > Len(c) - 1 THEN 0
    ELSE IF PathExists(disk, CachedPrefixFile(c, first)) THEN first
    ELSE SearchFromStart(c, disk, first + 1)

\* A prefix search that runs forward and stops at the shortest cached prefix.
NewSrcIndexShortest(c, disk) == SearchFromStart(c, disk, 1)

\* new_src_index after the prefix search.
NewSrcIndex(c, disk) == SearchCachedPrefix(c, disk, Len(c) - 1)

\* A hop file whose intermediate languages stop one language short.
HopCacheFileShortMid(c, lang_index) ==
    FileName(At(c, 0), At(c, lang_index + 1), Slice(c, 1, lang_index))

\* The file the hop lang_index is written to.
HopCacheFile(c, lang_index) ==
    FileName(At(c, 0), At(c, lang_index + 1), Slice(c, 1, lang_index + 1))

\* An element loop that leaves for the dump after its first element.
AfterElementLeaves(e, n) == "dump"

\* for element in translated_dataset: after element e of n, the next element
\* or, the loop being over, the dump of the hop.
AfterElement(e, n) == IF e + 1 < n THEN "elements" ELSE "dump"

\* The empty lineage, which names the official dataset of the language.
SourceLineageOfficial(lang) == << <<>> >>

\* src_langs of the source dataset of a language.
SourceLineage(lang) == << <<lang>> >>

\* An element loop body that also rewrites the label of the element.
TranslatedElementRelabelled(element, c, lang_index) ==
    [id |-> LineageId(element.id, Slice(c, 0, lang_index + 2)),
     text |-> TranslateText(element.text, At(c, lang_index), At(c, lang_index + 1)),
     category |-> At(c, lang_index + 1)]

\* One iteration of the element loop of hop lang_index.
TranslatedElement(element, c, lang_index) ==
    [element EXCEPT
        !.id = LineageId(element.id, Slice(c, 0, lang_index + 2)),
        !.text = TranslateText(element.text, At(c, lang_index), At(c, lang_index + 1))]

\* ------------------------------------------------------------------ state
\* ------------------------------------------------ translation of a text
\* Token ids of the source vocabulary.
TokenIds == {"a", "b"}

\* tokenizer(text, return_tensors='pt', truncation=False): the input ids of
\* the whole text and an attention mask of the same length.
Tokenized(ids) == [input_ids |-> ids, attention_mask |-> [i \in 1..Len(ids) |-> 1]]

\* A range that stops before a chunk that would not be full.
RangeOfFullSteps(start, stop, step) ==
    [k \in 1..((stop - start) \div step) |-> start + (k - 1) * step]

RECURSIVE Range(_, _, _)
\* range(start, stop, step) for a positive step.
Range(start, stop, step) ==
    IF start >= stop THEN <<>> ELSE <<start>> \o Range(start + step, stop, step)

\* max_length // 2, the chunk size _translate_text asks for.
ChunkSize(max_length) == max_length \div 2

\* _get_tokenized_chunks for a chunk size max_length >= 1: one BatchEncoding
\* per start of the range, with the slices of the ids and of the mask.
GetTokenizedChunks(tokens, max_length) ==
    LET starts == Range(0, Len(tokens.input_ids), max_length)
    IN [k \in 1..Len(starts) |->
           [input_ids |-> Slice(tokens.input_ids, starts[k], starts[k] + max_length),
            attention_mask |-> Slice(tokens.attention_mask, starts[k], starts[k] + max_length)]]

\* model.generate(**chunk): an uninterpreted function of the attended ids,
\* between the decoder start token and the end of sequence.
Generate(chunk) ==
    LET n == Len(chunk.input_ids)
        attended == SelectSeq([i \in 1..n |-> <<chunk.input_ids[i], chunk.attention_mask[i]>>],
                              LAMBDA t : t[2] = 1)
    IN <<"<pad>">> \o [i \in 1..Len(attended) |-> "T" \o attended[i][1]] \o <<"</s>">>

\* tokenizer.decode(ids, skip_special_tokens=True): the text of the ids, a
\* string kept as the sequence of its pieces.
Decode(ids) == SelectSeq(ids, LAMBDA t : t \notin {"<pad>", "</s>"})

\* ''.join(parts)
JoinedWithoutSeparator(parts, sep) ==
    IF Len(parts) = 0 THEN <<>>
    ELSE LET RECURSIVE cat(_)
             cat(k) == IF k = 0 THEN <<>> ELSE cat(k - 1) \o parts[k]
         IN cat(Len(parts))

RECURSIVE JoinStrings(_, _)
\* sep.join(parts) for parts that are strings (sequences of pieces).
JoinStrings(parts, sep) ==
    IF Len(parts) = 0 THEN <<>>
    ELSE IF Len(parts) = 1 THEN parts[1]
    ELSE parts[1] \o <<sep>> \o JoinStrings(Tail(parts), sep)

\* --------------------------------------------- SklearnTransformerClassif
\* The values of the eval parameter: None, 0 and a positive fraction.
EvalValues == {"None", "0", "0.1"}
\* `eval is None` and the truth value of eval in `if self._eval:`.
IsNone(eval) == eval = "None"
Truthy(eval) == eval \notin {"None", "0"}

\* Folders: no folder (None), the folder the user gave, the n-th directory
\* tempfile.TemporaryDirectory() made.
NoFolder == [kind |-> "None", n |-> 0]
UserFolder == [kind |-> "user", n |-> 0]
TempFolder(n) == [kind |-> "tmp", n |-> n]

RECURSIVE Sorted(_)
\* sorted(list(set(labels))) for labels that are numbers.
Sorted(S) ==
    IF S = {} THEN <<>>
    ELSE LET least == CHOOSE x \in S : \A y \in S : x <= y
         IN <<least>> \o Sorted(S \ {least})

\* _init_classes: the class labels, from the training labels or, when
\* set_string_labels was called, a copy of the labels it was given.
ClassLabels(str_labels, labels) ==
    IF str_labels = <<>> THEN Sorted(labels) ELSE str_labels

\* enumerate(self._class_labels): index -> label, indices from 0.
ClsIx2Label(class_labels) == [ix \in 0..(Len(class_labels) - 1) |-> class_labels[ix + 1]]

\* The characters of the decimal digits.
DigitChars == <<"0", "1", "2", "3", "4", "5", "6", "7", "8", "9">>

RECURSIVE DecimalString(_)
\* str(n) for n >= 0, as the sequence of its characters.
DecimalString(n) ==
    IF n < 10 THEN <<DigitChars[n + 1]>>
    ELSE DecimalString(n \div 10) \o <<DigitChars[(n % 10) + 1]>>

\* The label the model's config gives class index n: 'LABEL_n'.
LabelOfIndex(n) == <<"L", "A", "B", "E", "L", "_">> \o DecimalString(n)

\* int(c) for a digit character c.
IntOfChar(c) == CHOOSE d \in 0..9 : DigitChars[d + 1] = c

\* int(r['label'][-1]): the number the last character of the label stands for.
ParsedIndex(label) == IntOfChar(label[Len(label)])

\* _prepare_dataset: a DatasetDict with a train and an eval split when eval
\* is true, else one Dataset.
PrepareDataset(eval) ==
    IF Truthy(eval) THEN [kind |-> "DatasetDict", splits |-> {"train", "eval"}]
    ELSE [kind |-> "Dataset", splits |-> {}]

\* _init_train_args: the evaluation and checkpoint settings of TrainingArguments.
InitTrainArgs(eval, tmp_folder) ==
    IF IsNone(eval)
    THEN [do_eval |-> ~IsNone(eval), save_strategy |-> "no", evaluation_strategy |-> "no",
          save_total_limit |-> 0, load_best_model_at_end |-> FALSE, output_dir |-> tmp_folder]
    ELSE [do_eval |-> ~IsNone(eval), save_strategy |-> "epoch", evaluation_strategy |-> "epoch",
          save_total_limit |-> 2, load_best_model_at_end |-> TRUE, output_dir |-> tmp_folder]

\* The train and eval datasets _do_training hands to Trainer.
TrainerDatasets(eval, dset) ==
    IF Truthy(eval)
    THEN [train_dataset |-> <<dset.kind, "train">>, eval_dataset |-> <<dset.kind, "eval">>]
    ELSE [train_dataset |-> <<dset.kind, "all">>, eval_dataset |-> <<"None", "None">>]

\* ------------------------------------------------------------- variables
VARIABLES
    files,      \* the translated-dataset folder: file name -> state and content
    pc,         \* per invocation: where it is
    args,       \* per invocation: (src_lang, dest_lang, transition_langs)
    new_src_index, \* per invocation: the resume point found by the prefix search
    idx,        \* per invocation: lang_index
    elem,       \* per invocation: position of the element loop
    dataset,    \* per invocation: translated_dataset
    result,     \* per invocation: the dataset returned
    err,        \* per invocation: the exception that ended the call
    events,     \* per invocation: model loads, translations and file writes of the call
    disk0,      \* per invocation: the disk when the call started
    prev        \* per invocation: how the previous call with the same arguments ended

pipelineVars ==
    <<files, pc, args, new_src_index, idx, elem, dataset, result, err, events, disk0, prev>>

VARIABLES
    text_pc,            \* _translate_text: where the call is
    tokens,             \* the tokenizer's output for the text
    max_length,         \* model.config.max_length
    chunk_size,         \* the chunk size _get_tokenized_chunks was given
    tokenized_chunks,   \* tokenized_chunks
    generate_calls,     \* the chunks model.generate was called with, in order
    transladed_chunks,  \* transladed_chunks
    translation         \* the string _translate_text returned

textVars ==
    <<text_pc, tokens, max_length, chunk_size, tokenized_chunks, generate_calls,
      transladed_chunks, translation>>

VARIABLES
    load_pc,        \* load_dataset_full called on its own: where the call is
    load_request,   \* its arguments
    load_result     \* what it returned or raised

loaderVars == <<load_pc, load_request, load_result>>

VARIABLES
    cls_pc,                 \* the classifier: no call running, a step of fit, or deleted
    ctor_tmp_folder,        \* the tmp_folder argument of the constructor
    self_eval,              \* self._eval
    self_tmp_folder,        \* self._tmp_folder
    self_tmp_folder_object, \* self._tmp_folder_object, NoFolder when the attribute is not set
    dirs,                   \* the directories that exist
    temps,                  \* how many temporary directories have been made
    fits,                   \* how many fit calls have been made
    temps_at_fit,           \* how many temporary directories there had been when the last fit began
    last_fit,               \* how the last fit call ended
    self_str_labels,        \* self._str_labels, empty when the attribute is not set
    self_class_labels,      \* self._class_labels
    self_training_args,     \* self._training_args
    dset,                   \* the dataset _prepare_dataset made in the last fit
    trainer,                \* the datasets the last Trainer was built with
    predicted               \* the last prediction: class index, pipeline label, label returned

classifVars ==
    <<cls_pc, ctor_tmp_folder, self_eval, self_tmp_folder, self_tmp_folder_object, dirs,
      temps, fits, temps_at_fit, last_fit, self_str_labels, self_class_labels,
      self_training_args, dset, trainer, predicted>>

vars == <<pipelineVars, textVars, loaderVars, classifVars>>

\* The variables outside the translation pipeline, outside a text's
\* translation, outside a direct load, and outside the classifier.
outsidePipeline == <<textVars, loaderVars, classifVars>>
outsideText == <<pipelineVars, loaderVars, classifVars>>
outsideLoader == <<pipelineVars, textVars, classifVars>>
outsideClassif == <<pipelineVars, textVars, loaderVars>>

NoTrainingArgs == InitTrainArgs("None", NoFolder)
NoDataset == [kind |-> "None", splits |-> {}]
NoTrainer == [train_dataset |-> <<"None", "None">>, eval_dataset |-> <<"None", "None">>]
NoPrediction == [index |-> -1, label |-> <<>>, returned |-> -1]

\* A classifier constructed with eval and tmp_folder, over the directories ds.
Constructed(eval, tmp_folder, ds) ==
    /\ cls_pc = "ready"
    /\ ctor_tmp_folder = tmp_folder
    /\ self_eval = eval
    /\ self_tmp_folder = tmp_folder
    /\ self_tmp_folder_object = NoFolder
    /\ dirs = ds
    /\ temps = 0
    /\ fits = 0
    /\ temps_at_fit = 0
    /\ last_fit = "none"
    /\ self_str_labels = <<>>
    /\ self_class_labels = <<>>
    /\ self_training_args = NoTrainingArgs
    /\ dset = NoDataset
    /\ trainer = NoTrainer
    /\ predicted = NoPrediction

\* No classifier is in use.
ClassifIdle == Constructed("None", NoFolder, {})

\* load_dataset_full is not called on its own.
LoaderIdle ==
    /\ load_pc = "idle"
    /\ load_request = [dest_lang |-> "", src_langs |-> <<>>, format |-> ""]
    /\ load_result = Ok(<<>>)

\* No text is being translated.
TextIdle ==
    /\ text_pc = "idle"
    /\ tokens = Tokenized(<<>>)
    /\ max_length = 0
    /\ chunk_size = 0
    /\ tokenized_chunks = <<>>
    /\ generate_calls = <<>>
    /\ transladed_chunks = <<>>
    /\ translation = <<>>

Event(op, hop, e, file) == [op |-> op, hop |-> hop, elem |-> e, file |-> file]

NoPrev == [kind |-> "none", result |-> <<>>, hop |-> 0, wrote |-> FALSE]

\* The chain of the call invocation p is in.
Chain(p) == TranslationLangs(args[p].src, args[p].dest, args[p].trans)

\* The dataset a chain of languages produces from the source dataset of its
\* first language: the content a completed run leaves in the chain's file.
RECURSIVE HopsOf(_)
HopsOf(c) == IF Len(c) < 2 THEN <<>> ELSE <<  <<c[1], c[2]>>  >> \o HopsOf(Tail(c))

TranslatedThrough(c) ==
    [i \in 1..NumElems |->
        [id |-> <<OrigIds[i], "_">> \o Join(c, "_"),
         text |-> [lang |-> c[1], doc |-> OrigIds[i], via |-> HopsOf(c)],
         category |-> OrigCategories[i]]]

\* Files earlier runs can have left: the source datasets and the files of
\* valid chains that start at a source language.
SourceFiles == {FileName(l, l, <<>>) : l \in MainLangs}
CacheFiles == {k \in FileNames : k[1] \in MainLangs /\ ValidChain(k)}

InitialContent(f) ==
    IF f \in SourceFiles THEN DatasetToDict(SourceDataset(f[1]))
    ELSE DatasetToDict(TranslatedThrough(f))

Init ==
    /\ \E present \in SUBSET (SourceFiles \cup CacheFiles) :
          files = [f \in present |-> Complete(InitialContent(f))]
    /\ pc = [p \in Procs |-> "idle"]
    /\ args = [p \in Procs |-> [src |-> "", dest |-> "", trans |-> <<>>]]
    /\ new_src_index = [p \in Procs |-> 0]
    /\ idx = [p \in Procs |-> 0]
    /\ elem = [p \in Procs |-> 0]
    /\ dataset = [p \in Procs |-> <<>>]
    /\ result = [p \in Procs |-> <<>>]
    /\ err = [p \in Procs |-> "none"]
    /\ events = [p \in Procs |-> <<>>]
    /\ disk0 = [p \in Procs |-> files]
    /\ prev = [p \in Procs |-> NoPrev]
    /\ TextIdle
    /\ LoaderIdle
    /\ ClassifIdle

\* ---------------------------------------------------------------- actions
Ended(p) == pc[p] \in {"idle", "done", "failed", "crashed"}
InHopLoop(p) == pc[p] \in {"hop", "elements", "dump", "writing"}

Wrote(p) == \E i \in 1..Len(events[p]) : events[p][i].op = "write"

\* What the call that has just ended tells the next call with the same arguments.
Outcome(p) ==
    IF pc[p] = "done"
    THEN [kind |-> "ok", result |-> result[p], hop |-> 0, wrote |-> events[p] # <<>>]
    ELSE IF pc[p] = "crashed" /\ err[p] = "crash in hop loop"
    THEN [kind |-> "crash", result |-> <<>>, hop |-> idx[p], wrote |-> Wrote(p)]
    ELSE NoPrev

Return(p, ds) ==
    /\ pc' = [pc EXCEPT ![p] = "done"]
    /\ result' = [result EXCEPT ![p] = ds]
    /\ err' = [err EXCEPT ![p] = "none"]

Fail(p, kind) ==
    /\ pc' = [pc EXCEPT ![p] = "failed"]
    /\ result' = [result EXCEPT ![p] = <<>>]
    /\ err' = [err EXCEPT ![p] = kind]

\* get_translated_dataset(src, dest, trans), up to its return, its failure or
\* its call of _translate_dataset.
GetTranslatedDataset(p, src, dest, trans) ==
    /\ Ended(p)
    /\ args' = [args EXCEPT ![p] = [src |-> src, dest |-> dest, trans |-> trans]]
    /\ prev' = [prev EXCEPT ![p] =
                  IF args[p] = [src |-> src, dest |-> dest, trans |-> trans]
                  THEN Outcome(p) ELSE NoPrev]
    /\ events' = [events EXCEPT ![p] = <<>>]
    /\ disk0' = [disk0 EXCEPT ![p] = files]
    /\ new_src_index' = [new_src_index EXCEPT ![p] = 0]
    /\ idx' = [idx EXCEPT ![p] = 0]
    /\ elem' = [elem EXCEPT ![p] = 0]
    /\ dataset' = [dataset EXCEPT ![p] = <<>>]
    /\ IF IsDegenerate(src, dest, trans)
       THEN LET r == LoadDatasetFull(dest, SourceLineage(dest), "json", Mounted(files)) IN
            IF r.err = "none" THEN Return(p, DatasetFromDict(r.data)) ELSE Fail(p, r.err)
       ELSE LET r == LoadDatasetFull(dest, << <<src>> \o trans >>, "json", Mounted(files)) IN
            IF r.err = "none" THEN Return(p, DatasetFromDict(r.data))
            ELSE IF r.err = "FileNotFoundError"
            THEN /\ pc' = [pc EXCEPT ![p] = "translate_dataset"]
                 /\ result' = [result EXCEPT ![p] = <<>>]
                 /\ err' = [err EXCEPT ![p] = "none"]
            ELSE Fail(p, r.err)
    /\ UNCHANGED files
    /\ UNCHANGED outsidePipeline

\* _translate_dataset from its entry to the first hop: the load of the source
\* dataset, the validation of the chain, the prefix search and the load of the
\* cached prefix.
TranslateDataset(p) ==
    /\ pc[p] = "translate_dataset"
    /\ LET src == args[p].src
           dest == args[p].dest
           trans == args[p].trans
           c == Chain(p)
           base == LoadDatasetFull(src, SourceLineage(src), "json", Mounted(files))
           found == NewSrcIndex(c, files)
           cached == LoadDatasetFull(At(c, found), << Slice(c, 0, found) >>, "json", Mounted(files))
           Enter(ds) ==
               /\ dataset' = [dataset EXCEPT ![p] = ds]
               /\ new_src_index' = [new_src_index EXCEPT ![p] = found]
               /\ idx' = [idx EXCEPT ![p] = found]
               /\ IF found < Len(c) - 1
                  THEN /\ pc' = [pc EXCEPT ![p] = "hop"]
                       /\ UNCHANGED <<result, err>>
                  ELSE Return(p, ds)
       IN IF base.err # "none"
          THEN Fail(p, base.err) /\ UNCHANGED <<dataset, new_src_index, idx>>
          ELSE IF IsDegenerate(src, dest, trans)
          THEN Return(p, DatasetFromDict(base.data)) /\ UNCHANGED <<dataset, new_src_index, idx>>
          ELSE IF ~ValidChain(c)
          THEN Fail(p, "ValueError") /\ UNCHANGED <<dataset, new_src_index, idx>>
          ELSE IF found = 0
          THEN Enter(DatasetFromDict(base.data))
          ELSE IF cached.err # "none"
          THEN /\ Fail(p, cached.err)
               /\ new_src_index' = [new_src_index EXCEPT ![p] = found]
               /\ UNCHANGED <<dataset, idx>>
          ELSE Enter(DatasetFromDict(cached.data))
    /\ UNCHANGED <<files, args, elem, events, disk0, prev>>
    /\ UNCHANGED outsidePipeline

\* _load_translation_model for the hop lang_index.
LoadTranslationModel(p) ==
    /\ pc[p] = "hop"
    /\ events' = [events EXCEPT ![p] = Append(@, Event("load", idx[p], -1, <<>>))]
    /\ elem' = [elem EXCEPT ![p] = 0]
    /\ pc' = [pc EXCEPT ![p] = AfterElement(-1, Len(dataset[p]))]
    /\ UNCHANGED <<files, args, new_src_index, idx, dataset, result, err, disk0, prev>>
    /\ UNCHANGED outsidePipeline

\* from_pretrained raises: the exception leaves _translate_dataset.
LoadTranslationModelFails(p) ==
    /\ pc[p] = "hop"
    /\ Fail(p, "BackendError")
    /\ UNCHANGED <<files, args, new_src_index, idx, elem, dataset, events, disk0, prev>>
    /\ UNCHANGED outsidePipeline

\* One iteration of the element loop: the id and the text of one element.
TranslateElement(p) ==
    /\ pc[p] = "elements"
    /\ dataset' = [dataset EXCEPT ![p][elem[p] + 1] =
                      TranslatedElement(@, Chain(p), idx[p])]
    /\ events' = [events EXCEPT ![p] = Append(@, Event("translate", idx[p], elem[p], <<>>))]
    /\ elem' = [elem EXCEPT ![p] = @ + 1]
    /\ pc' = [pc EXCEPT ![p] = AfterElement(elem[p], Len(dataset[p]))]
    /\ UNCHANGED <<files, args, new_src_index, idx, result, err, disk0, prev>>
    /\ UNCHANGED outsidePipeline

\* model.generate raises on an element: the exception leaves _translate_dataset.
TranslateElementFails(p) ==
    /\ pc[p] = "elements"
    /\ Fail(p, "BackendError")
    /\ UNCHANGED <<files, args, new_src_index, idx, elem, dataset, events, disk0, prev>>
    /\ UNCHANGED outsidePipeline

\* open(..., 'w') of the hop's file: the file exists, truncated.
OpenCacheFile(p) ==
    /\ pc[p] = "dump"
    /\ CanOpenForWriting(files, HopCacheFile(Chain(p), idx[p]))
    /\ files' = WithFile(files, HopCacheFile(Chain(p), idx[p]), Partial)
    /\ events' = [events EXCEPT ![p] =
                     Append(@, Event("open", idx[p], -1, HopCacheFile(Chain(p), idx[p])))]
    /\ pc' = [pc EXCEPT ![p] = "writing"]
    /\ UNCHANGED <<args, new_src_index, idx, elem, dataset, result, err, disk0, prev>>
    /\ UNCHANGED outsidePipeline

\* json.dump and the close of the file, then the next hop or the return.
DumpCacheFile(p) ==
    /\ pc[p] = "writing"
    /\ files' = WithFile(files, HopCacheFile(Chain(p), idx[p]),
                         Complete(DatasetToDict(dataset[p])))
    /\ events' = [events EXCEPT ![p] =
                     Append(@, Event("write", idx[p], -1, HopCacheFile(Chain(p), idx[p])))]
    /\ idx' = [idx EXCEPT ![p] = @ + 1]
    /\ IF idx[p] + 1 < Len(Chain(p)) - 1
       THEN /\ pc' = [pc EXCEPT ![p] = "hop"]
            /\ UNCHANGED <<result, err>>
       ELSE Return(p, dataset[p])
    /\ UNCHANGED <<args, new_src_index, elem, dataset, disk0, prev>>
    /\ UNCHANGED outsidePipeline

\* The process is interrupted: what it held in memory is lost, the disk stays.
Crash(p) ==
    /\ ~Ended(p)
    /\ pc' = [pc EXCEPT ![p] = "crashed"]
    /\ err' = [err EXCEPT ![p] = IF InHopLoop(p) THEN "crash in hop loop" ELSE "crash"]
    /\ dataset' = [dataset EXCEPT ![p] = <<>>]
    /\ elem' = [elem EXCEPT ![p] = 0]
    /\ result' = [result EXCEPT ![p] = <<>>]
    /\ UNCHANGED <<files, args, new_src_index, idx, events, disk0, prev>>
    /\ UNCHANGED outsidePipeline

\* The arguments of the calls.
TransitionLists == SeqsUpTo(Langs, MaxTrans)

Step(p) ==
    \/ \E src \in MainLangs, dest \in Langs, trans \in TransitionLists :
          GetTranslatedDataset(p, src, dest, trans)
    \/ TranslateDataset(p)
    \/ LoadTranslationModel(p)
    \/ LoadTranslationModelFails(p)
    \/ TranslateElement(p)
    \/ TranslateElementFails(p)
    \/ OpenCacheFile(p)
    \/ DumpCacheFile(p)
    \/ Crash(p)

\* Calls made one after the other by one process.
Next == \E p \in SeqProcs : Step(p)

Spec == Init /\ [][Next]_vars

\* Two invocations of get_translated_dataset on the same chain, started in any
\* order over a folder that holds the source datasets and no cache file. The
\* code takes no lock, so their steps interleave freely.
InitConc == Init /\ DOMAIN files = SourceFiles

ConcurrentCall(p) ==
    /\ pc[p] = "idle"
    /\ \E src \in MainLangs, dest \in Langs, trans \in TransitionLists :
          /\ \A q \in Procs \ {p} :
                pc[q] # "idle" => args[q] = [src |-> src, dest |-> dest, trans |-> trans]
          /\ GetTranslatedDataset(p, src, dest, trans)

StepConc(p) ==
    \/ ConcurrentCall(p)
    \/ TranslateDataset(p)
    \/ LoadTranslationModel(p)
    \/ LoadTranslationModelFails(p)
    \/ TranslateElement(p)
    \/ TranslateElementFails(p)
    \/ OpenCacheFile(p)
    \/ DumpCacheFile(p)
    \/ Crash(p)

NextConc == \E p \in Procs : StepConc(p)

SpecConc == InitConc /\ [][NextConc]_vars

\* ----------------------------------------------------------- properties
IsPrefix(s, t) == Len(s) <= Len(t) /\ SubSeq(t, 1, Len(s)) = s

\* The hops of the translations the engine did in the call, in order.
InvokedHops(p) ==
    LET done == SelectSeq(events[p], LAMBDA e : e.op = "translate")
    IN [i \in 1..Len(done) |-> done[i].hop]

\* Every element translated for hop n, then for hop n + 1, ... up to hop k - 1.
HopsFrom(n, k) == [i \in 1..((k - n) * NumElems) |-> n + ((i - 1) \div NumElems)]

\* The largest n >= 1 such that the file keyed (c[0], c[n], c[1..n-1]) exists
\* on the disk, 0 if there is none.
LongestCachedPrefix(c, disk) ==
    LET cachedAt == {n \in 1..(Len(c) - 1) :
                        <<c[1]>> \o SubSeq(c, 2, n) \o <<c[n + 1]>> \in DOMAIN disk}
    IN IF cachedAt = {} THEN 0 ELSE CHOOSE n \in cachedAt : \A m \in cachedAt : m <= n

\* The call of p went through the hop loop of _translate_dataset.
Translating(p) == InHopLoop(p) \/ (pc[p] = "done" /\ events[p] # <<>>)

\* C1: a call that finds the full-chain file absent resumes at the largest
\* index whose prefix file existed when it started (0 if none, whatever the
\* gaps), and the engine translates the hops from that index to the end of
\* the chain, in chain order, and no earlier hop.
C1_ResumeAtLongestPrefix ==
    \A p \in SeqProcs :
        Translating(p) =>
            LET n == LongestCachedPrefix(Chain(p), disk0[p])
                k == Len(Chain(p)) - 1
            IN /\ new_src_index[p] = n
               /\ IsPrefix(InvokedHops(p), HopsFrom(n, k))
               /\ pc[p] = "done" => InvokedHops(p) = HopsFrom(n, k)

\* A run that resumed over a gap: index 2 cached, index 1 not.
C1_Witness ==
    \E p \in SeqProcs :
        /\ pc[p] = "done"
        /\ Len(Chain(p)) = 4
        /\ new_src_index[p] = 2
        /\ ~PathExists(disk0[p], CachedPrefixFile(Chain(p), 1))
        /\ InvokedHops(p) = HopsFrom(2, 3)

\* The call of p asks for one language and no transition.
OneLanguage(p) == args[p].src = args[p].dest /\ args[p].trans = <<>>

\* Two consecutive languages of the chain of p are equal.
AdjacentEqual(p) == \E i \in 1..(Len(Chain(p)) - 1) : Chain(p)[i] = Chain(p)[i + 1]

\* C2: a call that repeats the arguments of the call before it, which
\* succeeded, returns at once the same dataset, element for element, without
\* loading a model, translating or writing a file.
C2_RepeatedCallIsCacheHit ==
    \A p \in SeqProcs :
        (prev[p].kind = "ok" /\ pc[p] # "crashed") =>
            /\ pc[p] = "done"
            /\ result[p] = prev[p].result
            /\ events[p] = <<>>
            /\ files = disk0[p]

\* A repeated call after a call that translated two hops.
C2_Witness ==
    \E p \in SeqProcs :
        /\ prev[p].kind = "ok"
        /\ prev[p].wrote
        /\ pc[p] = "done"
        /\ Len(Chain(p)) = 3
        /\ result[p] = TranslatedThrough(Chain(p))

\* C3: the id of every element a call on a valid chain returns, and of every
\* element of the full-chain file, is the original id, "_", and the languages
\* of the whole chain joined by "_".
C3_IdLineage ==
    \A p \in SeqProcs :
        (pc[p] = "done" /\ ~OneLanguage(p)) =>
            /\ Len(result[p]) = NumElems
            /\ \A i \in 1..NumElems :
                  /\ result[p][i].id = <<OrigIds[i], "_">> \o Join(Chain(p), "_")
                  /\ DatasetFromDict(FileAt(files, Chain(p)).data)[i].id = result[p][i].id

\* A run that resumed from a cached prefix and translated the rest.
C3_Witness ==
    \E p \in SeqProcs :
        /\ pc[p] = "done"
        /\ new_src_index[p] = 1
        /\ InvokedHops(p) = HopsFrom(1, 3)
        /\ result[p][1].id = <<"7", "_", "en", "_", "fr", "_", "en", "_", "fr">>

\* C4: a call whose chain has two equal consecutive languages ends with a
\* ValueError, whatever the disk holds.
C4_InvalidChainRaisesValueError ==
    \A p \in SeqProcs :
        (AdjacentEqual(p) /\ ~OneLanguage(p) /\ pc[p] \in {"done", "failed"}) =>
            (pc[p] = "failed" /\ err[p] = "ValueError")

\* C5: at no point of a call whose chain has two equal consecutive languages
\* is a model loaded, a text translated or a file created or modified.
C5_InvalidChainDoesNoWork ==
    \A p \in SeqProcs :
        (AdjacentEqual(p) /\ ~OneLanguage(p)) =>
            /\ events[p] = <<>>
            /\ files = disk0[p]
            /\ ~InHopLoop(p)

\* The chain [en, fr, fr] has been rejected.
C5_Witness ==
    \E p \in SeqProcs :
        /\ pc[p] = "failed"
        /\ err[p] = "ValueError"
        /\ Chain(p) = <<"en", "fr", "fr">>

\* The number of events of kind op and hop h among the first t events of p.
Count(p, op, h, t) ==
    Cardinality({i \in 1..t : events[p][i].op = op /\ events[p][i].hop = h})

\* The prefix of the chain of p up to the language of index j (0-based).
ChainTo(p, j) == SubSeq(Chain(p), 1, j + 1)

\* C6: the file of a hop is opened only after every element has been
\* translated for that hop; when the model load or a generation of hop i
\* fails, the call ends with that failure after one attempt, the file of
\* hop i is as it was when the call started, and the files of the hops done
\* before keep what was written to them.
C6_NoPartialHopOnFailure ==
    \A p \in SeqProcs :
        /\ \A t \in 1..Len(events[p]) :
              events[p][t].op \in {"open", "write"} =>
                  Count(p, "translate", events[p][t].hop, t) = NumElems
        /\ (pc[p] = "failed" /\ err[p] = "BackendError") =>
              /\ Count(p, "open", idx[p], Len(events[p])) = 0
              /\ Count(p, "load", idx[p], Len(events[p])) <= 1
              /\ result[p] = <<>>
              /\ FileAt(files, ChainTo(p, idx[p] + 1)) =
                    FileAt(disk0[p], ChainTo(p, idx[p] + 1))
              /\ \A j \in 1..idx[p] :
                    FileAt(files, ChainTo(p, j)) =
                        IF j > new_src_index[p]
                        THEN Complete(DatasetToDict(TranslatedThrough(ChainTo(p, j))))
                        ELSE FileAt(disk0[p], ChainTo(p, j))

\* A generation failed in the second hop of a run, after one element.
C6_Witness ==
    \E p \in SeqProcs :
        /\ pc[p] = "failed"
        /\ err[p] = "BackendError"
        /\ new_src_index[p] = 0
        /\ idx[p] = 1
        /\ elem[p] = 1
        /\ ~PathExists(files, ChainTo(p, 2))

\* C7: the call that repeats a call interrupted after one of its hops was
\* persisted succeeds (unless the backend fails), translates only the hops
\* that were not persisted, and returns the dataset of the full chain.
C7_RetryAfterCrashResumes ==
    \A p \in SeqProcs :
        (prev[p].kind = "crash" /\ prev[p].wrote) =>
            /\ pc[p] = "failed" => err[p] = "BackendError"
            /\ pc[p] = "done" =>
                  /\ InvokedHops(p) = HopsFrom(prev[p].hop, Len(Chain(p)) - 1)
                  /\ result[p] = TranslatedThrough(Chain(p))

\* C8: every file that exists in the translated-dataset folder holds a
\* complete dataset: every element of the source dataset, translated through
\* the chain its name stands for.
C8_ExistingFilesAreComplete ==
    \A f \in FileNames :
        PathExists(files, f) =>
            /\ files[f].st = "complete"
            /\ DatasetFromDict(files[f].data) =
                  IF f \in SourceFiles THEN SourceDataset(f[1]) ELSE TranslatedThrough(f)

\* C9: after a call that translated from index n to the end of its chain, the
\* file keyed (c[0], c[j], c[1..j-1]) holds, for every j > n, the dataset as
\* it was after the hop that reached c[j]; each was written under the name the
\* prefix search tests for index j, so that the search of any valid longer
\* chain finds it; and it was written before the model of the next hop was
\* loaded.
C9_EveryHopPersisted ==
    \A p \in SeqProcs :
        (pc[p] = "done" /\ events[p] # <<>>) =>
            LET c == Chain(p) IN
            /\ \A j \in (new_src_index[p] + 1)..(Len(c) - 1) :
                  /\ FileAt(files, <<c[1]>> \o SubSeq(c, 2, j) \o <<c[j + 1]>>) =
                        Complete(DatasetToDict(TranslatedThrough(ChainTo(p, j))))
                  /\ \E t \in 1..Len(events[p]) :
                        /\ events[p][t].op = "write"
                        /\ events[p][t].hop = j - 1
                        /\ events[p][t].file = CachedPrefixFile(c, j)
                  /\ \A d \in FileNames :
                        (Len(d) > j + 1 /\ ValidChain(d) /\ SubSeq(d, 1, j + 1) = ChainTo(p, j)) =>
                            /\ PathExists(files, CachedPrefixFile(d, j))
                            /\ NewSrcIndex(d, files) >= j
            /\ \A t \in 1..Len(events[p]) :
                  (events[p][t].op = "load" /\ events[p][t].hop > new_src_index[p]) =>
                      Count(p, "write", events[p][t].hop - 1, t) = 1

\* A run from the source dataset through three hops.
C9_Witness ==
    \E p \in SeqProcs :
        /\ pc[p] = "done"
        /\ new_src_index[p] = 0
        /\ Len(Chain(p)) = 4
        /\ Count(p, "write", 2, Len(events[p])) = 1

\* C10: a call for one language and no transition returns the content of the
\* source file of that language, element for element, loads no model and
\* leaves every file as it was.
C10_OneLanguagePassThrough ==
    \A p \in SeqProcs :
        (pc[p] = "done" /\ OneLanguage(p)) =>
            /\ PathExists(disk0[p], <<args[p].dest, args[p].dest>>)
            /\ result[p] = SourceDataset(args[p].dest)
            /\ DatasetToDict(result[p]) = FileAt(disk0[p], <<args[p].dest, args[p].dest>>).data
            /\ events[p] = <<>>
            /\ files = disk0[p]

\* A one-language call that returned, with cache files on the disk.
C10_Witness ==
    \E p \in SeqProcs :
        /\ pc[p] = "done"
        /\ OneLanguage(p)
        /\ PathExists(files, <<"en", "fr">>)
        /\ Len(result[p]) = NumElems

\* C12: a call that starts with neither the source file of src_lang nor the
\* full-chain file on the disk ends with FileNotFoundError, whatever prefix
\* files exist, having loaded no model, translated nothing and written no file.
C12_MissingSourceIsFileNotFound ==
    \A p \in SeqProcs :
        (/\ pc[p] # "idle"
         /\ ~PathExists(disk0[p], <<args[p].src, args[p].src>>)
         /\ ~PathExists(disk0[p], Chain(p))) =>
            /\ pc[p] \in {"translate_dataset", "failed", "crashed"}
            /\ pc[p] = "failed" => err[p] = "FileNotFoundError"
            /\ result[p] = <<>>
            /\ events[p] = <<>>
            /\ files = disk0[p]

\* The call failed for want of the source file although a prefix was cached.
C12_Witness ==
    \E p \in SeqProcs :
        /\ pc[p] = "failed"
        /\ err[p] = "FileNotFoundError"
        /\ Chain(p) = <<"en", "fr", "en">>
        /\ PathExists(files, <<"en", "fr">>)
        /\ ~PathExists(files, <<"en", "en">>)

\* The language pairs of the models the call of p has loaded, in order.
LoadedPairs(p) ==
    LET loads == SelectSeq(events[p], LAMBDA e : e.op = "load")
    IN [i \in 1..Len(loads) |-> <<Chain(p)[loads[i].hop + 1], Chain(p)[loads[i].hop + 2]>>]

\* C13: within one call the model of a language pair is constructed at most
\* once, and only for hops that are translated.
C13_OneModelPerPair ==
    \A p \in SeqProcs :
        /\ \A i, j \in 1..Len(LoadedPairs(p)) :
              LoadedPairs(p)[i] = LoadedPairs(p)[j] => i = j
        /\ \A i \in 1..Len(events[p]) :
              events[p][i].op = "load" => events[p][i].hop >= new_src_index[p]

\* C17: the dataset a call on a chain of several languages returns, and every
\* complete file of the folder, has the elements of the source dataset in
\* their order, each with the label of the source element at its position.
C17_OnlyTextAndIdChange ==
    LET Same(ds) ==
            /\ Len(ds) = NumElems
            /\ \A i \in 1..NumElems :
                  /\ ds[i].category = SourceElement("en", i).category
                  /\ FirstField(ds[i].id, "_") = SourceElement("en", i).id
    IN /\ \A p \in SeqProcs : (pc[p] = "done" /\ ~OneLanguage(p)) => Same(result[p])
       /\ \A p \in SeqProcs : InHopLoop(p) => Len(dataset[p]) = NumElems
       /\ \A f \in DOMAIN files :
             files[f].st = "complete" => Same(DatasetFromDict(files[f].data))

\* A call translated three hops and returned.
C17_Witness ==
    \E p \in SeqProcs :
        /\ pc[p] = "done"
        /\ InvokedHops(p) = HopsFrom(0, 3)
        /\ result[p][2].category = "CRITICAL"
        /\ result[p][2].text.via = <<  <<"en", "fr">>, <<"fr", "en">>, <<"en", "fr">>  >>

\* ------------------------------------------- _translate_text, step by step
\* No call of get_translated_dataset is in progress and the folder is empty.
PipelineIdle ==
    /\ files = <<>>
    /\ pc = [p \in Procs |-> "idle"]
    /\ args = [p \in Procs |-> [src |-> "", dest |-> "", trans |-> <<>>]]
    /\ new_src_index = [p \in Procs |-> 0]
    /\ idx = [p \in Procs |-> 0]
    /\ elem = [p \in Procs |-> 0]
    /\ dataset = [p \in Procs |-> <<>>]
    /\ result = [p \in Procs |-> <<>>]
    /\ err = [p \in Procs |-> "none"]
    /\ events = [p \in Procs |-> <<>>]
    /\ disk0 = [p \in Procs |-> <<>>]
    /\ prev = [p \in Procs |-> NoPrev]

\* A call of _translate_text on a text of any token sequence, with a model of
\* any maximum length.
InitText ==
    /\ PipelineIdle
    /\ LoaderIdle
    /\ ClassifIdle
    /\ text_pc = "start"
    /\ \E ids \in SeqsUpTo(TokenIds, MaxTokens) : tokens = Tokenized(ids)
    /\ max_length \in 0..MaxLength
    /\ chunk_size = 0
    /\ tokenized_chunks = <<>>
    /\ generate_calls = <<>>
    /\ transladed_chunks = <<>>
    /\ translation = <<>>

\* tokenized_chunks = _get_tokenized_chunks(text, tokenizer, max_length // 2)
TokenizeChunks ==
    /\ text_pc = "start"
    /\ ChunkSize(max_length) >= 1
    /\ chunk_size' = ChunkSize(max_length)
    /\ tokenized_chunks' = GetTokenizedChunks(tokens, ChunkSize(max_length))
    /\ text_pc' = "chunks"
    /\ UNCHANGED <<tokens, max_length, generate_calls, transladed_chunks, translation>>
    /\ UNCHANGED outsideText

\* range(0, len(input_ids), 0) raises ValueError: the step must not be zero.
TokenizeChunksFails ==
    /\ text_pc = "start"
    /\ ChunkSize(max_length) = 0
    /\ chunk_size' = ChunkSize(max_length)
    /\ text_pc' = "ValueError"
    /\ UNCHANGED <<tokens, max_length, tokenized_chunks, generate_calls, transladed_chunks,
                   translation>>
    /\ UNCHANGED outsideText

\* One iteration of for chunk in tokenized_chunks: generate, decode, append.
TranslateChunk ==
    /\ text_pc = "chunks"
    /\ Len(transladed_chunks) < Len(tokenized_chunks)
    /\ LET chunk == tokenized_chunks[Len(transladed_chunks) + 1] IN
          /\ generate_calls' = Append(generate_calls, chunk)
          /\ transladed_chunks' = Append(transladed_chunks, Decode(Generate(chunk)))
    /\ UNCHANGED <<text_pc, tokens, max_length, chunk_size, tokenized_chunks, translation>>
    /\ UNCHANGED outsideText

\* return ' '.join(transladed_chunks)
JoinChunks ==
    /\ text_pc = "chunks"
    /\ Len(transladed_chunks) = Len(tokenized_chunks)
    /\ translation' = JoinStrings(transladed_chunks, " ")
    /\ text_pc' = "returned"
    /\ UNCHANGED <<tokens, max_length, chunk_size, tokenized_chunks, generate_calls,
                   transladed_chunks>>
    /\ UNCHANGED outsideText

NextText == TokenizeChunks \/ TokenizeChunksFails \/ TranslateChunk \/ JoinChunks

SpecText == InitText /\ [][NextText]_vars

\* ------------------------------------------- load_dataset_full, called directly
\* Languages, lineages and formats a load is asked for: the official
\* languages, a translated one and one no dataset exists for.
LoadLangs == {"en", "es", "fr", "xx"}
LoadLineages == {<<>>, <<"en">>, <<"en", "fr">>, <<"xx">>}
LoadFormats == {"docbin", "json", "csv"}

\* Any of the disks the pipeline can start from, and no call in progress.
InitLoad ==
    /\ Init
    /\ \A f \in CacheFiles : PathExists(files, f) => Len(f) <= 3

\* One call of load_dataset_full.
LoadCall(dest_lang, src_langs, format) ==
    /\ load_pc' = "returned"
    /\ load_request' = [dest_lang |-> dest_lang, src_langs |-> src_langs, format |-> format]
    /\ load_result' = LoadDatasetFull(dest_lang, src_langs, format, Mounted(files))
    /\ UNCHANGED outsideLoader

NextLoad ==
    \E dest_lang \in LoadLangs, src_langs \in SeqsUpTo(LoadLineages, MaxLineages),
       format \in LoadFormats :
        LoadCall(dest_lang, src_langs, format)

SpecLoad == InitLoad /\ [][NextLoad]_vars

\* --------------------------------- SklearnTransformerClassif, step by step
\* A classifier just constructed, with any eval, without tmp_folder or with
\* a folder of the user's that exists.
InitClassif ==
    /\ PipelineIdle
    /\ TextIdle
    /\ LoaderIdle
    /\ \E eval \in EvalValues :
          \/ Constructed(eval, NoFolder, {})
          \/ Constructed(eval, UserFolder, {UserFolder})

\* The sets of labels of the training sets.
LabelSets == {lo..hi : lo \in 1..2, hi \in 1..(MaxClasses + 1)} \ {{}}

\* set_string_labels(labels), before a fit.
SetStringLabels(labels) ==
    /\ cls_pc = "ready"
    /\ fits = 0
    /\ self_str_labels = <<>>
    /\ self_str_labels' = labels
    /\ UNCHANGED <<temps_at_fit, cls_pc, ctor_tmp_folder, self_eval, self_tmp_folder, self_tmp_folder_object,
                   dirs, temps, fits, last_fit, self_class_labels, self_training_args, dset,
                   trainer, predicted>>
    /\ UNCHANGED outsideClassif

\* fit(X, y) up to the model: _init_classes(y).
FitInitClasses(labels) ==
    /\ cls_pc = "ready"
    /\ fits < MaxFits
    /\ Cardinality(labels) <= MaxClasses
    /\ fits' = fits + 1
    /\ temps_at_fit' = temps
    /\ self_class_labels' = ClassLabels(self_str_labels, labels)
    /\ predicted' = NoPrediction
    /\ last_fit' = "running"
    /\ cls_pc' = "init_model"
    /\ UNCHANGED <<ctor_tmp_folder, self_eval, self_tmp_folder, self_tmp_folder_object, dirs,
                   temps, self_str_labels, self_training_args, dset, trainer>>
    /\ UNCHANGED outsideClassif

\* _init_model(self._num_classes)
InitModel ==
    /\ cls_pc = "init_model"
    /\ cls_pc' = "init_temp_folder"
    /\ UNCHANGED <<temps_at_fit, ctor_tmp_folder, self_eval, self_tmp_folder, self_tmp_folder_object, dirs,
                   temps, fits, last_fit, self_str_labels, self_class_labels,
                   self_training_args, dset, trainer, predicted>>
    /\ UNCHANGED outsideClassif

\* _init_temp_folder(): a new temporary directory when self._tmp_folder is
\* None, else the assertion that the folder exists.
InitTempFolder ==
    /\ cls_pc = "init_temp_folder"
    /\ IF self_tmp_folder = NoFolder
       THEN /\ temps' = temps + 1
            /\ dirs' = dirs \cup {TempFolder(temps + 1)}
            /\ self_tmp_folder_object' = TempFolder(temps + 1)
            /\ self_tmp_folder' = TempFolder(temps + 1)
            /\ cls_pc' = "do_training"
            /\ UNCHANGED last_fit
       ELSE /\ IF self_tmp_folder \in dirs
               THEN cls_pc' = "do_training" /\ UNCHANGED last_fit
               ELSE cls_pc' = "ready" /\ last_fit' = "failed"
            /\ UNCHANGED <<temps, dirs, self_tmp_folder_object, self_tmp_folder>>
    /\ UNCHANGED <<temps_at_fit, ctor_tmp_folder, self_eval, fits, self_str_labels,
                   self_class_labels,
                   self_training_args, dset, trainer, predicted>>
    /\ UNCHANGED outsideClassif

\* _do_training up to the construction of the Trainer.
BuildTrainer ==
    /\ cls_pc = "do_training"
    /\ dset' = PrepareDataset(self_eval)
    /\ self_training_args' = InitTrainArgs(self_eval, self_tmp_folder)
    /\ trainer' = TrainerDatasets(self_eval, PrepareDataset(self_eval))
    /\ cls_pc' = "train"
    /\ UNCHANGED <<temps_at_fit, ctor_tmp_folder, self_eval, self_tmp_folder, self_tmp_folder_object, dirs,
                   temps, fits, last_fit, self_str_labels, self_class_labels, predicted>>
    /\ UNCHANGED outsideClassif

\* trainer.train() and the rest of _do_training.
Train ==
    /\ cls_pc = "train"
    /\ cls_pc' = "cleanup"
    /\ UNCHANGED <<temps_at_fit, ctor_tmp_folder, self_eval, self_tmp_folder, self_tmp_folder_object, dirs,
                   temps, fits, last_fit, self_str_labels, self_class_labels,
                   self_training_args, dset, trainer, predicted>>
    /\ UNCHANGED outsideClassif

\* An exception in _init_model or _do_training: fit has no try/finally, the
\* exception leaves fit at once.
FitRaises ==
    /\ cls_pc \in {"init_model", "do_training", "train"}
    /\ cls_pc' = "ready"
    /\ last_fit' = "failed"
    /\ UNCHANGED <<temps_at_fit, ctor_tmp_folder, self_eval, self_tmp_folder, self_tmp_folder_object, dirs,
                   temps, fits, self_str_labels, self_class_labels, self_training_args, dset,
                   trainer, predicted>>
    /\ UNCHANGED outsideClassif

\* _cleanup_temp_folder(), as the last statement of fit (then fit returns),
\* called on its own, or called by __del__.
CleanupTempFolder(then, outcome) ==
    /\ IF self_tmp_folder_object # NoFolder
       THEN /\ dirs' = dirs \ {self_tmp_folder_object}
            /\ self_tmp_folder_object' = NoFolder
            /\ self_tmp_folder' = NoFolder
       ELSE UNCHANGED <<dirs, self_tmp_folder_object, self_tmp_folder>>
    /\ cls_pc' = then
    /\ last_fit' = outcome
    /\ UNCHANGED <<temps_at_fit, ctor_tmp_folder, self_eval, temps, fits, self_str_labels,
                   self_class_labels, self_training_args, dset, trainer, predicted>>
    /\ UNCHANGED outsideClassif

FitCleanup == cls_pc = "cleanup" /\ CleanupTempFolder("ready", "returned")

Cleanup == cls_pc = "ready" /\ fits > 0 /\ CleanupTempFolder("ready", last_fit)

Del == cls_pc = "ready" /\ CleanupTempFolder("deleted", last_fit)

\* predict(X) for one text the fine-tuned model gives class index n.
Predict(n) ==
    /\ cls_pc = "ready"
    /\ last_fit = "returned"
    /\ n \in 0..(Len(self_class_labels) - 1)
    /\ predicted' = [index |-> n, label |-> LabelOfIndex(n),
                     returned |-> ClsIx2Label(self_class_labels)[ParsedIndex(LabelOfIndex(n))]]
    /\ UNCHANGED <<temps_at_fit, cls_pc, ctor_tmp_folder, self_eval, self_tmp_folder, self_tmp_folder_object,
                   dirs, temps, fits, last_fit, self_str_labels, self_class_labels,
                   self_training_args, dset, trainer>>
    /\ UNCHANGED outsideClassif

NextClassif ==
    \/ SetStringLabels(<<2, 1>>)
    \/ \E labels \in LabelSets : FitInitClasses(labels)
    \/ InitModel
    \/ InitTempFolder
    \/ BuildTrainer
    \/ Train
    \/ FitRaises
    \/ FitCleanup
    \/ Cleanup
    \/ Del
    \/ \E n \in 0..(MaxClasses - 1) : Predict(n)

SpecClassif == InitClassif /\ [][NextClassif]_vars

\* The files the call of p has opened for writing, and those it has written.
Opened(p) == {events[p][i].file : i \in {j \in 1..Len(events[p]) : events[p][j].op = "open"}}
Written(p) == {events[p][i].file : i \in {j \in 1..Len(events[p]) : events[p][j].op = "write"}}

\* C16: two invocations on the same chain are not serialized: whatever the
\* other invocation is doing, the next step of an invocation (the lookup, the
\* model load, the translation of an element, the open and the dump of the
\* hop's file) can be taken, and each translates every hop its own prefix
\* search found uncached.
C16_NoSerialization ==
    \A p \in Procs :
        /\ pc[p] = "translate_dataset" => ENABLED TranslateDataset(p)
        /\ pc[p] = "hop" => ENABLED LoadTranslationModel(p)
        /\ pc[p] = "elements" => ENABLED TranslateElement(p)
        /\ pc[p] = "dump" => ENABLED OpenCacheFile(p)
        /\ pc[p] = "writing" => ENABLED DumpCacheFile(p)
        /\ (pc[p] = "done" /\ events[p] # <<>>) =>
              InvokedHops(p) = HopsFrom(new_src_index[p], Len(Chain(p)) - 1)

\* Both invocations found hop 0 uncached and translated it; invocation 1 wrote
\* the hop's file and invocation 2 then opened the same file for writing,
\* truncating what invocation 1 had written.
C16_Witness ==
    LET f == HopCacheFile(Chain(1), 0) IN
    /\ args[1] = args[2]
    /\ new_src_index[1] = 0 /\ new_src_index[2] = 0
    /\ \A p \in Procs : Count(p, "translate", 0, Len(events[p])) = NumElems
    /\ f \in Written(1)
    /\ f \in Opened(2) /\ f \notin Written(2)
    /\ pc[2] = "writing" /\ idx[2] = 0
    /\ FileAt(files, f) = Partial

\* C11: the chunk size _translate_text uses is max_length // 2 whatever the
\* maximum length; for a chunk size M >= 1 a sequence of N tokens is cut into
\* exactly ceil(N / M) chunks of 1 to M tokens each, and the model is run once
\* per chunk, so that the call returns with as many decoded translations as
\* chunks. (For max_length < 2 the chunk size is 0 and the call raises.)
C11_ChunkCount ==
    LET N == Len(tokens.input_ids)
        M == max_length \div 2
    IN /\ text_pc \in {"chunks", "returned", "ValueError"} => chunk_size = M
       /\ text_pc = "ValueError" <=> (text_pc # "start" /\ text_pc # "idle" /\ M = 0)
       /\ text_pc \in {"chunks", "returned"} =>
             /\ M >= 1
             /\ Len(tokenized_chunks) * M >= N
             /\ (Len(tokenized_chunks) - 1) * M < N \/ (N = 0 /\ tokenized_chunks = <<>>)
             /\ \A k \in 1..Len(tokenized_chunks) :
                   /\ Len(tokenized_chunks[k].input_ids) \in 1..M
                   /\ Len(tokenized_chunks[k].attention_mask) = Len(tokenized_chunks[k].input_ids)
             /\ Len(generate_calls) = Len(transladed_chunks)
             /\ Len(generate_calls) <= Len(tokenized_chunks)
       /\ text_pc = "returned" =>
             /\ generate_calls = tokenized_chunks
             /\ Len(transladed_chunks) = Len(tokenized_chunks)

\* Three tokens and an odd maximum length of 5: chunks of 2 and 1 tokens, the
\* model run twice.
C11_Witness ==
    /\ text_pc = "returned"
    /\ Len(tokens.input_ids) = 3
    /\ max_length = 5
    /\ Len(tokenized_chunks) = 2
    /\ Len(tokenized_chunks[2].input_ids) = 1
    /\ Len(generate_calls) = 2

\* C15: the chunks are the consecutive slices of the token sequence, in
\* order: chunk k holds the ids and the mask entries from position (k-1)*M up
\* to k*M, so their concatenation is the whole sequence with nothing dropped
\* or repeated; the string returned is the decoded translations of the chunks
\* in order with exactly one space between two of them, and the empty string
\* when there is no chunk.
C15_ChunksContiguousAndJoined ==
    LET N == Len(tokens.input_ids)
        n == Len(tokenized_chunks)
        Upto(k) == IF k * chunk_size > N THEN N ELSE k * chunk_size
        RECURSIVE concat(_, _)
        concat(field, k) ==
            IF k = 0 THEN <<>> ELSE concat(field, k - 1) \o tokenized_chunks[k][field]
        RECURSIVE spaced(_)
        spaced(k) ==
            IF k = 0 THEN <<>>
            ELSE IF k = 1 THEN Decode(Generate(tokenized_chunks[1]))
            ELSE spaced(k - 1) \o <<" ">> \o Decode(Generate(tokenized_chunks[k]))
    IN /\ text_pc \in {"chunks", "returned"} =>
             /\ \A k \in 1..n :
                   /\ tokenized_chunks[k].input_ids =
                         SubSeq(tokens.input_ids, (k - 1) * chunk_size + 1, Upto(k))
                   /\ tokenized_chunks[k].attention_mask =
                         SubSeq(tokens.attention_mask, (k - 1) * chunk_size + 1, Upto(k))
             /\ concat("input_ids", n) = tokens.input_ids
             /\ concat("attention_mask", n) = tokens.attention_mask
             /\ \A k \in 1..Len(transladed_chunks) :
                   transladed_chunks[k] = Decode(Generate(tokenized_chunks[k]))
       /\ text_pc = "returned" =>
             /\ translation = spaced(n)
             /\ n = 0 => translation = <<>>
             /\ Len(SelectSeq(translation, LAMBDA t : t = " ")) = IF n = 0 THEN 0 ELSE n - 1

\* A text of four tokens translated in chunks of 1 token: four translations
\* with three spaces between them.
C15_Witness ==
    /\ text_pc = "returned"
    /\ tokens.input_ids = <<"a", "b", "b", "a">>
    /\ chunk_size = 1
    /\ translation = <<"Ta", " ", "Tb", " ", "Tb", " ", "Ta">>

C18_PredictMapsIndexToLabel ==
    predicted # NoPrediction =>
        /\ predicted.label = LabelOfIndex(predicted.index)
        /\ predicted.returned = ClsIx2Label(self_class_labels)[predicted.index]

\* C19: a classifier constructed without tmp_folder has, whenever no fit is
\* running, no temporary directory left and self._tmp_folder None, and every
\* fit makes a new temporary directory; a classifier constructed with a
\* tmp_folder keeps self._tmp_folder and the folder through every fit,
\* cleanup and destructor call.
C19_TmpFolderLifecycle ==
    /\ ctor_tmp_folder = NoFolder =>
          /\ cls_pc \in {"ready", "deleted"} =>
                /\ self_tmp_folder = NoFolder
                /\ self_tmp_folder_object = NoFolder
                /\ dirs = {}
          /\ cls_pc \in {"do_training", "train", "cleanup"} =>
                /\ temps = temps_at_fit + 1
                /\ self_tmp_folder = TempFolder(temps)
                /\ dirs = {TempFolder(temps)}
    /\ ctor_tmp_folder = UserFolder =>
          /\ self_tmp_folder = UserFolder
          /\ UserFolder \in dirs

\* C20: the Trainer is configured for evaluation (do_eval, evaluation and
\* checkpoint per epoch, best model loaded at the end) exactly when
\* _prepare_dataset made a train/eval split, whose eval part is then the
\* Trainer's eval_dataset.
C20_EvalConfigMatchesSplit ==
    cls_pc \in {"train", "cleanup"} =>
        LET a == self_training_args
            evalOn == /\ a.do_eval
                      /\ a.evaluation_strategy = "epoch"
                      /\ a.save_strategy = "epoch"
                      /\ a.load_best_model_at_end
            evalOff == /\ ~a.do_eval
                       /\ a.evaluation_strategy = "no"
                       /\ a.save_strategy = "no"
                       /\ ~a.load_best_model_at_end
            split == /\ dset = [kind |-> "DatasetDict", splits |-> {"train", "eval"}]
                     /\ trainer.eval_dataset = <<"DatasetDict", "eval">>
        IN /\ evalOn \/ evalOff
           /\ evalOn <=> split
           /\ ~split => trainer.eval_dataset = <<"None", "None">>

====
